---------------------------- MODULE Spec2Model ----------------------------
(***************************************************************************)
(* A model of core/subgraph_specializer.py: the Graph class, its          *)
(* constructor, specialize, original, iterate, dynamics and               *)
(* _linear_dynamics.                                                      *)
(*                                                                         *)
(* Python values that the code inspects with type() are records           *)
(* [k, s, i]: k is the Python type ("str", "int", "none"), s the string   *)
(* as the sequence of its '.'-separated pieces ("a.1" is <<"a", "1">>),   *)
(* i the integer.  Lists and numpy vectors are sequences (Python index p  *)
(* is TLA+ index p+1).  Dictionaries are functions; a lookup of a key     *)
(* outside the DOMAIN is Python's KeyError.  A matrix is the sequence of  *)
(* its rows.  An exception is the string naming its Python class.         *)
(***************************************************************************)
EXTENDS Integers, Sequences, FiniteSets, TLC

VARIABLES pc, g, r, root, op, calls

vars == <<pc, g, r, root, op, calls>>

---------------------------------------------------------------------------
(* Bounds of the model *)

\* node count of the adjacency matrices handed to the constructor
MaxN == 3
\* number of nonzero entries of an adjacency matrix handed to the constructor
MaxEdges == 3
\* node count up to which a network is also built with explicit labels or a
\* functional matrix, is given ill-formed base lists, and is specialized again
SmallN == 2
\* number of specialize calls made one after the other
MaxCalls == 2
\* the iters argument of iterate
MaxIters == 3

\* the edge weights tried
Weights == {1, 2}
SignedWeights == {-1, 1, 2}

---------------------------------------------------------------------------
(* Python values *)

PyStr(t) == [k |-> "str", s |-> t, i |-> 0]
PyInt(v) == [k |-> "int", s |-> <<>>, i |-> v]
PyNone == [k |-> "none", s |-> <<>>, i |-> 0]

Max(a, b) == IF a >= b THEN a ELSE b
Min(a, b) == IF a <= b THEN a ELSE b

Range(s) == {s[p] : p \in 1..Len(s)}

\* range(n) as a list
RangeList(n) == [p \in 1..Max(n, 0) |-> p - 1]

RECURSIVE SumSeq(_)
SumSeq(s) == IF Len(s) = 0 THEN 0 ELSE s[1] + SumSeq(Tail(s))

RECURSIVE Concat(_)
\* the concatenation of a sequence of sequences
Concat(ss) == IF Len(ss) = 0 THEN <<>> ELSE ss[1] \o Concat(Tail(ss))

---------------------------------------------------------------------------
(* Matrices: scipy.sparse / numpy operations the code uses *)

Dim(A) == Len(A)

\* A[rows,:][:,cols] for index lists rows and cols
Take(A, rows, cols) ==
    [p \in 1..Len(rows) |-> [q \in 1..Len(cols) |-> A[rows[p] + 1][cols[q] + 1]]]

\* A.sum()
MatSum(A) == SumSeq([p \in 1..Len(A) |-> SumSeq(A[p])])

\* np.argwhere(A != 0): the positions of the nonzero entries, row-major
ArgWhere(A) ==
    Concat([p \in 1..Len(A) |->
        Concat([q \in 1..Len(A[p]) |->
            IF A[p][q] # 0 THEN <<[row |-> p - 1, col |-> q - 1]>> ELSE <<>>])])

\* A @ x
MatVec(A, x) == [p \in 1..Len(A) |-> SumSeq([q \in 1..Len(x) |-> A[p][q] * x[q]])]

---------------------------------------------------------------------------
(* Graph.__init__ *)

NoGraph ==
    [n |-> 0, A |-> <<>>, labels |-> <<>>, labeler |-> <<>>, indexer |-> <<>>,
     origin |-> <<>>, F |-> "none"]

\* dict(zip(keys, values)): a later pair replaces an earlier one with its key
ZipDict(keys, values) ==
    LET m == Min(Len(keys), Len(values))
    IN  [key \in {keys[p] : p \in 1..m} |->
            LET last == CHOOSE p \in 1..m :
                    /\ keys[p] = key
                    /\ \A q \in 1..m : keys[q] = key => q <= p
            IN  values[last]]

\* labels = [f'{i}' for i in range(n)]
DefaultLabels(n) == [p \in 1..n |-> PyStr(<<ToString(p - 1)>>)]

\* the test of lines 53-57 on a labels argument that is not None
BadLabels(labels, n) ==
    \/ labels.kind # "list"
    \/ Len(labels.items) # n
    \/ labels.items[1].k # "str"

\* Graph(A, labels, F, origin): [err, net]
GraphInit(A, labels, F, origin) ==
    LET n == Len(A)
        m == IF n = 0 THEN 0 ELSE Len(A[1])
    IN  IF n # m THEN [err |-> "ValueError", net |-> NoGraph]
        ELSE IF labels.kind # "none" /\ BadLabels(labels, n)
        THEN [err |-> "ValueError", net |-> NoGraph]
        ELSE
            LET ls == IF labels.kind = "none" THEN DefaultLabels(n) ELSE labels.items
                indexer == ZipDict(ls, RangeList(n))
            IN  [err |-> "",
                 net |-> [n |-> n,
                          A |-> A,
                          labels |-> ls,
                          labeler |-> [i \in 0..(n - 1) |-> ls[i + 1]],
                          indexer |-> indexer,
                          origin |-> IF DOMAIN origin # {} THEN origin ELSE indexer,
                          F |-> F]]

---------------------------------------------------------------------------
(* Graph.specialize *)

Raise(e, self) == [err |-> e, self |-> self, net |-> NoGraph]

\* lines 113-123: the base list turned into indices, or the exception
ResolveBase(self, base) ==
    IF Len(base.items) = 0 THEN [err |-> "IndexError", items |-> <<>>]
    ELSE
        LET first == base.items[1]
            resolved ==
                IF first.k = "str"
                THEN [p \in 1..Len(base.items) |-> PyInt(self.indexer[base.items[p]])]
                ELSE base.items
        IN  IF first.k = "str" /\ first \notin DOMAIN self.indexer
            THEN [err |-> "KeyError", items |-> <<>>]
            ELSE IF first.k = "str" /\ base.kind # "list"
            THEN [err |-> "TypeError", items |-> <<>>]
            ELSE IF first.k = "str"
                    /\ \E p \in 1..Len(base.items) : base.items[p] \notin DOMAIN self.indexer
            THEN [err |-> "KeyError", items |-> <<>>]
            ELSE IF first.k \notin {"str", "int"}
            THEN [err |-> "ValueError", items |-> <<>>]
            ELSE IF Len(base.items) > self.n
            THEN [err |-> "ValueError", items |-> <<>>]
            ELSE [err |-> "", items |-> resolved]

\* line 126: spec_set = [i for i in self.indices if i not in base]
SpecSet(self, items) ==
    SelectSeq(RangeList(self.n), LAMBDA i : PyInt(i) \notin Range(items))

\* what lines 143-145 would be if they counted the edges of the two cross blocks
\* instead of summing their weights
NumCopiesByCount(in_graph, out_graph) ==
    Len(ArgWhere(in_graph)) * Len(ArgWhere(out_graph))

\* line 145: num_copies = int(num_in * num_out)
NumCopies(in_graph, out_graph) == MatSum(in_graph) * MatSum(out_graph)

\* lines 150-154: sp.block_diag of the base block and num_copies spec blocks
BlockDiag(A, base_len, spec_len, num_copies) ==
    LET size == base_len + Max(num_copies, 0) * spec_len
    IN  [p \in 1..size |-> [q \in 1..size |->
            IF p <= base_len /\ q <= base_len THEN A[p][q]
            ELSE IF p > base_len /\ q > base_len
                    /\ (p - 1 - base_len) \div spec_len = (q - 1 - base_len) \div spec_len
            THEN A[base_len + 1 + ((p - 1 - base_len) % spec_len)]
                  [base_len + 1 + ((q - 1 - base_len) % spec_len)]
            ELSE 0]]

\* lines 158-169: the writes of the rewiring loop, in the order it makes them:
\* pairing i (from 0) is in_edges[i div |out_edges|] with out_edges[i mod |out_edges|]
Rewiring(in_graph, out_graph, base_len, spec_len) ==
    LET in_edges == ArgWhere(in_graph)
        out_edges == ArgWhere(out_graph)
        no == Len(out_edges)
    IN  [p \in 1..(Len(in_edges) * no) |->
            LET i == p - 1
                in_edge == in_edges[(i \div no) + 1]
                out_edge == out_edges[(i % no) + 1]
                base_offset == base_len + i * spec_len
            IN  [in_row |-> base_offset + in_edge.row,
                 in_col |-> in_edge.col,
                 in_val |-> in_graph[in_edge.row + 1][in_edge.col + 1],
                 out_row |-> out_edge.row,
                 out_col |-> base_offset + out_edge.col,
                 out_val |-> out_graph[out_edge.row + 1][out_edge.col + 1]]]

\* an assignment S[row, col] = v outside the matrix is an IndexError
OutOfBounds(S, writes) ==
    \E p \in 1..Len(writes) :
        \/ writes[p].in_row >= Dim(S)
        \/ writes[p].in_col >= Dim(S)
        \/ writes[p].out_row >= Dim(S)
        \/ writes[p].out_col >= Dim(S)

\* S after all the writes (a later write to an entry replaces an earlier one)
Rewired(S, writes) ==
    [p \in 1..Dim(S) |-> [q \in 1..Dim(S) |->
        LET hits == {w \in 1..Len(writes) :
                        \/ (writes[w].in_row = p - 1 /\ writes[w].in_col = q - 1)
                        \/ (writes[w].out_row = p - 1 /\ writes[w].out_col = q - 1)}
        IN  IF hits = {} THEN S[p][q]
            ELSE LET w == CHOOSE w \in hits : \A v \in hits : v <= w
                 IN  IF writes[w].out_row = p - 1 /\ writes[w].out_col = q - 1
                     THEN writes[w].out_val ELSE writes[w].in_val]]

\* lines 174-179: the labels of the new network
CopyLabels(labels, base_len, spec_len, num_copies) ==
    SubSeq(labels, 1, base_len) \o
    [p \in 1..(Max(num_copies, 0) * spec_len) |->
        LET i == (p - 1) \div spec_len
            j == (p - 1) % spec_len
        IN  PyStr(Append(labels[base_len + j + 1].s, ToString(i + 1)))]

\* self.specialize(base): [err, self (the receiver afterwards), net (the result)]
SpecializeCall(self, base) ==
    LET rb == ResolveBase(self, base)
    IN  IF rb.err # "" THEN Raise(rb.err, self)
        ELSE
        LET spec_set == SpecSet(self, rb.items)
            permute == rb.items \o [p \in 1..Len(spec_set) |-> PyInt(spec_set[p])]
        IN  \* line 130: self.labeler[permute[i]] for i in range(self.n)
            IF \E p \in 1..self.n :
                    ~(permute[p].k = "int" /\ permute[p].i \in DOMAIN self.labeler)
            THEN Raise("KeyError", self)
            ELSE
            LET perm == [p \in 1..Len(permute) |-> permute[p].i]
                labeler == [i \in 0..(self.n - 1) |-> self.labeler[perm[i + 1]]]
                moved == [self EXCEPT
                    !.labeler = labeler,
                    !.indexer = ZipDict([p \in 1..self.n |-> labeler[p - 1]],
                                        RangeList(self.n)),
                    !.labels = [p \in 1..Len(perm) |-> self.labels[perm[p] + 1]],
                    !.A = Take(self.A, perm, perm)]
                base_len == Len(rb.items)
                spec_len == Len(spec_set)
                dim == base_len + spec_len
                in_graph == Take(moved.A, [p \in 1..spec_len |-> base_len + p - 1],
                                 RangeList(base_len))
                out_graph == Take(moved.A, RangeList(base_len),
                                  [p \in 1..spec_len |-> base_len + p - 1])
                num_copies == NumCopies(in_graph, out_graph)
                S == BlockDiag(moved.A, base_len, spec_len, num_copies)
                writes == Rewiring(in_graph, out_graph, base_len, spec_len)
            IN  IF OutOfBounds(S, writes) THEN Raise("IndexError", moved)
                ELSE IF num_copies >= 1
                        /\ \E j \in 1..spec_len : moved.labels[base_len + j].k # "str"
                THEN Raise("TypeError", moved)
                ELSE
                LET made == GraphInit(Rewired(S, writes),
                                      [kind |-> "list",
                                       items |-> CopyLabels(moved.labels, base_len,
                                                            spec_len, num_copies)],
                                      self.F, self.origin)
                IN  [err |-> made.err, self |-> moved, net |-> made.net]

---------------------------------------------------------------------------
(* Graph.original, Graph.dynamics, Graph.iterate, Graph._linear_dynamics *)

\* self.original(i): [err, ret]
OriginalCall(self, i) ==
    IF i \notin DOMAIN self.labeler THEN [err |-> "KeyError", ret |-> -1]
    ELSE
        LET label == self.labeler[i]
        IN  \* label.find('.') on a label that is no string
            IF label.k # "str" THEN [err |-> "AttributeError", ret |-> -1]
            ELSE
                \* label[:temp_ind], or the label itself when it has no '.'
                LET canon == PyStr(<<label.s[1]>>)
                IN  IF canon \notin DOMAIN self.origin
                    THEN [err |-> "KeyError", ret |-> -1]
                    ELSE [err |-> "", ret |-> self.origin[canon]]

\* the functional matrix the networks are built with: F[a,b] is x -> (a+1)*x + b
FApply(a, b, x) == (a + 1) * x + b

\* the exception self.dynamics(t0) raises for a t0 of length n ("" when none):
\* that of the first self.original(i) that fails
DynamicsErr(self) ==
    IF \A i \in 0..(self.n - 1) : OriginalCall(self, i).err = "" THEN ""
    ELSE LET i == CHOOSE i \in 0..(self.n - 1) :
                    /\ OriginalCall(self, i).err # ""
                    /\ \A j \in 0..(i - 1) : OriginalCall(self, j).err = ""
         IN  OriginalCall(self, i).err

\* self.dynamics(t0)
Dynamics(self, t0) ==
    [p \in 1..Len(t0) |->
        LET o_i == OriginalCall(self, p - 1).ret
        IN  SumSeq([q \in 1..Len(t0) |->
                LET o_j == OriginalCall(self, q - 1).ret
                IN  IF p = q THEN FApply(o_i, o_j, t0[q])
                    ELSE self.A[p][q] * FApply(o_i, o_j, t0[q])])]

\* one time step: line 294 (linear) or line 259 (self.F given)
Step(self, x) == IF self.F = "none" THEN MatVec(self.A, x) ELSE Dynamics(self, x)

\* the exception of one time step ("" when none); A @ x needs A to have n columns
StepErr(self) ==
    IF self.F = "none"
    THEN (IF Dim(self.A) # self.n THEN "ValueError" ELSE "")
    ELSE DynamicsErr(self)

RECURSIVE Rows(_, _, _)
\* the rows t[0], ..., t[k-1] from t[0] = x
Rows(self, k, x) ==
    IF k <= 1 THEN <<x>> ELSE <<x>> \o Rows(self, k - 1, Step(self, x))

\* t[0] = initial_condition on a row of length n: numpy stretches a vector of
\* length 1 to the row and refuses any other length but n
Assign0(n, x0) ==
    IF Len(x0) = n THEN [err |-> "", row |-> x0]
    ELSE IF Len(x0) = 1 THEN [err |-> "", row |-> [p \in 1..n |-> x0[1]]]
    ELSE [err |-> "ValueError", row |-> <<>>]

\* what iterate would be if the trajectory held a row for the state after
\* iters steps as well: np.zeros((iters + 1, n)) and range(1, iters + 1)
IterateInclusive(self, iters, x0) ==
    IF iters < 0 THEN [err |-> "ValueError", traj |-> <<>>]
    ELSE IF Assign0(self.n, x0).err # ""
    THEN [err |-> Assign0(self.n, x0).err, traj |-> <<>>]
    ELSE IF iters >= 1 /\ StepErr(self) # ""
    THEN [err |-> StepErr(self), traj |-> <<>>]
    ELSE [err |-> "", traj |-> Rows(self, iters + 1, Assign0(self.n, x0).row)]

\* t = np.zeros((iters, n)); t[0] = ...; for i in range(1, iters): t[i] = ...
\* [err, traj]
IterateCall(self, iters, x0) ==
    IF iters < 0 THEN [err |-> "ValueError", traj |-> <<>>]
    ELSE IF iters = 0 THEN [err |-> "IndexError", traj |-> <<>>]
    ELSE IF Assign0(self.n, x0).err # ""
    THEN [err |-> Assign0(self.n, x0).err, traj |-> <<>>]
    ELSE IF iters >= 2 /\ StepErr(self) # ""
    THEN [err |-> StepErr(self), traj |-> <<>>]
    ELSE [err |-> "", traj |-> Rows(self, iters, Assign0(self.n, x0).row)]

---------------------------------------------------------------------------
(* The arguments tried *)

NoneArg == [kind |-> "none", items |-> <<>>]
ListArg(items) == [kind |-> "list", items |-> items]
TupleArg(items) == [kind |-> "tuple", items |-> items]

\* the n x n matrices with a zero diagonal, at most MaxEdges nonzero entries
\* and the weights W
Matrices(n, W) ==
    LET cells == {c \in (1..n) \X (1..n) : c[1] # c[2]}
    IN  UNION {
            {[p \in 1..n |-> [q \in 1..n |->
                IF <<p, q>> \in E THEN w[<<p, q>>] ELSE 0]] : w \in [E -> W]}
            : E \in {E \in SUBSET cells : Cardinality(E) <= MaxEdges}}

\* a matrix that is not square
Oblong == <<<<0, 1>>>>

\* the items explicit labels are made of: 'a', 'b', 'a.1' and the integer 1
LabelItems == {PyStr(<<"a">>), PyStr(<<"b">>), PyStr(<<"a", "1">>), PyInt(1)}

\* the explicit labels tried with an n x n matrix: lists of n - 1, n and n + 1
\* items, and a tuple of n strings
LabelArgs(n) ==
    {ListArg(items) : items \in UNION {[1..m -> LabelItems] : m \in {n - 1, n, n + 1}}}
    \cup {TupleArg([p \in 1..n |-> PyStr(<<"a">>)])}

\* b with the items at the positions P given as the node's label
Named(self, b, P) ==
    [p \in 1..Len(b) |-> IF p \in P THEN self.labels[b[p] + 1] ELSE PyInt(b[p])]

\* the base lists tried on every network: the first m and the last m nodes
\* (the last ones from n-1 down), as indices and as labels, and the same lists
\* with their first item repeated at the end
BaseArgs(self) ==
    LET idx == {[p \in 1..m |-> p - 1] : m \in 1..self.n}
               \cup {[p \in 1..m |-> self.n - p] : m \in 1..self.n}
        lists == {Named(self, b, {}) : b \in idx}
                 \cup {Named(self, b, 1..Len(b)) : b \in idx}
    IN  {ListArg(b) : b \in lists} \cup {ListArg(b \o <<b[1]>>) : b \in lists}

\* the lists of distinct indices of a network of n nodes
IndexLists(n) ==
    {b \in UNION {[1..m -> 0..(n - 1)] : m \in 1..n} :
        \A p, q \in 1..Len(b) : p # q => b[p] # b[q]}

\* the further base arguments tried on a network of at most SmallN nodes:
\* every list of distinct indices with any of its items given as the node's
\* label, the same with one item replaced by an index or a label the network
\* does not have or by None, with its first item repeated at the end, as a
\* tuple, and the empty list
OddBaseArgs(self) ==
    IF self.n > SmallN THEN {}
    ELSE
        LET named == {Named(self, b, P) : P \in SUBSET (1..self.n), b \in IndexLists(self.n)}
            strange == {PyInt(self.n), PyStr(<<"zz">>), PyNone}
        IN  ({ListArg(b) : b \in named}
             \cup {ListArg([b EXCEPT ![p] = v]) : p \in 1..self.n, v \in strange, b \in named}
             \cup {ListArg(b \o <<b[1]>>) : b \in named}
             \cup {TupleArg(b) : b \in named}
             \cup {ListArg(<<>>)}) \ BaseArgs(self)

\* the initial conditions tried on a network of n nodes: 1, 2, ..., m for
\* every m up to n + 1
StateArgs(n) == {[p \in 1..m |-> p] : m \in 0..(n + 1)}

---------------------------------------------------------------------------
(* The state machine: one network object g on which the calls are made,    *)
(* the last call made (op) with the network as it was before the call      *)
(* (op.pre), and the network r that a specialize returned.  root is the    *)
(* network first constructed, as constructed.  After a call the caller     *)
(* goes on with the same object (Keep) or with the one returned (Chain);   *)
(* original and iterate change nothing, and a run ends with them.          *)

NoOp ==
    [name |-> "none", err |-> "", rows |-> 0, labels |-> NoneArg, base |-> NoneArg,
     iters |-> 0, x0 |-> <<>>, idx |-> 0, ret |-> -1, traj |-> <<>>, pre |-> NoGraph]

Init ==
    /\ pc = "new"
    /\ g = NoGraph
    /\ r = NoGraph
    /\ root = NoGraph
    /\ op = NoOp
    /\ calls = 0

\* a call can be made: a network is there and no result is pending
Idle == pc = "live" /\ op.name \in {"none", "init"}

\* g = Graph(A, labels, F)
Construct(A, labels, F) ==
    /\ pc = "new"
    /\ op.name = "none"
    /\ calls = 0
    /\ LET made == GraphInit(A, labels, F, <<>>)
       IN  /\ op' = [NoOp EXCEPT !.name = "init", !.err = made.err, !.rows = Len(A),
                                 !.labels = labels]
           /\ pc' = IF made.err = "" THEN "live" ELSE "new"
           /\ g' = made.net
           /\ root' = made.net
    /\ UNCHANGED <<r, calls>>

\* r = g.specialize(base)
Specialize(base) ==
    /\ pc = "live"
    /\ op.name \in {"none", "init"}
    /\ calls < MaxCalls
    /\ calls > 0 => g.n <= SmallN
    /\ LET done == SpecializeCall(g, base)
       IN  /\ op' = [NoOp EXCEPT !.name = "specialize", !.err = done.err,
                                 !.base = base, !.pre = g]
           /\ g' = done.self
           /\ r' = done.net
    /\ calls' = calls + 1
    /\ UNCHANGED <<pc, root>>

\* the next call is made on the same object
Keep ==
    /\ pc = "live"
    /\ op.name = "specialize"
    /\ r' = NoGraph
    /\ op' = NoOp
    /\ UNCHANGED <<pc, g, root, calls>>

\* the next call is made on the network the specialize returned
Chain ==
    /\ pc = "live"
    /\ op.name = "specialize"
    /\ op.err = ""
    /\ g' = r
    /\ r' = NoGraph
    /\ op' = NoOp
    /\ UNCHANGED <<pc, root, calls>>

\* g.original(i)
Original(i) ==
    /\ pc = "live"
    /\ op.name \in {"none", "init"}
    /\ LET done == OriginalCall(g, i)
       IN  op' = [NoOp EXCEPT !.name = "original", !.err = done.err, !.idx = i,
                              !.ret = done.ret, !.pre = g]
    /\ UNCHANGED <<pc, g, r, root, calls>>

\* g.iterate(iters, x0), on a network of at most MaxN nodes
Iterate(iters, x0) ==
    /\ pc = "live"
    /\ op.name \in {"none", "init"}
    /\ g.n <= MaxN
    /\ LET done == IterateCall(g, iters, x0)
       IN  op' = [NoOp EXCEPT !.name = "iterate", !.err = done.err, !.iters = iters,
                              !.x0 = x0, !.traj = done.traj, !.pre = g]
    /\ UNCHANGED <<pc, g, r, root, calls>>

\* The networks constructed: with the default labels and positive weights up
\* to MaxN nodes; with negative weights, a functional matrix or explicit labels
\* up to SmallN nodes; and a matrix that is not square.  Ill-formed base lists
\* are tried on the network constructed.
Next ==
    \/ \E n \in 1..MaxN : \E A \in Matrices(n, Weights) : Construct(A, NoneArg, "none")
    \/ \E n \in 1..SmallN : \E A \in Matrices(n, SignedWeights) :
            \E F \in {"none", "lin"} : Construct(A, NoneArg, F)
    \/ \E n \in 1..SmallN : \E A \in Matrices(n, SignedWeights) :
            \E labels \in LabelArgs(n) : Construct(A, labels, "none")
    \/ Construct(Oblong, NoneArg, "none")
    \/ Idle /\ \E base \in BaseArgs(g) : Specialize(base)
    \/ Idle /\ calls = 0 /\ \E base \in OddBaseArgs(g) : Specialize(base)
    \/ Keep
    \/ Chain
    \/ Idle /\ \E i \in 0..g.n : Original(i)
    \/ Idle /\ \E iters \in 0..MaxIters : \E x0 \in StateArgs(g.n) : Iterate(iters, x0)

Spec == Init /\ [][Next]_vars

---------------------------------------------------------------------------
(* What the claims speak of, read off the last call and the network it was *)
(* made on                                                                  *)

\* specialize returned the network r
Returned == op.name = "specialize" /\ op.err = ""

\* the base list of the last specialize as node indices of op.pre
BaseIdx ==
    [p \in 1..Len(op.base.items) |->
        IF op.base.items[1].k = "str" THEN op.pre.indexer[op.base.items[p]]
        ELSE op.base.items[p].i]

\* the specialized set: the indices not in the base list, ascending
SpecIdx == SelectSeq(RangeList(op.pre.n), LAMBDA i : i \notin Range(BaseIdx))

\* the weight of the edge from node j to node i of op.pre
Weight(i, j) == op.pre.A[i + 1][j + 1]

\* the boundary edges into the specialized set, as <<position in SpecIdx, position
\* in BaseIdx>>, and those out of it, as <<position in BaseIdx, position in SpecIdx>>
InEdges ==
    {e \in (1..Len(SpecIdx)) \X (1..Len(BaseIdx)) : Weight(SpecIdx[e[1]], BaseIdx[e[2]]) # 0}
OutEdges ==
    {e \in (1..Len(BaseIdx)) \X (1..Len(SpecIdx)) : Weight(BaseIdx[e[1]], SpecIdx[e[2]]) # 0}

\* the summed weights of the two cross blocks
NumIn ==
    SumSeq([s \in 1..Len(SpecIdx) |->
        SumSeq([b \in 1..Len(BaseIdx) |-> Weight(SpecIdx[s], BaseIdx[b])])])
NumOut ==
    SumSeq([b \in 1..Len(BaseIdx) |->
        SumSeq([s \in 1..Len(SpecIdx) |-> Weight(BaseIdx[b], SpecIdx[s])])])

\* the number of copies of the specialized block in r
Copies == IF Len(SpecIdx) = 0 THEN 0 ELSE (r.n - Len(BaseIdx)) \div Len(SpecIdx)

\* the nonzero entries of r between copy c (from 0) and the base: in its rows,
\* and in its columns, as <<position in the copy, position in the base>>
CopyIn(c) ==
    {e \in (1..Len(SpecIdx)) \X (1..Len(BaseIdx)) :
        r.A[Len(BaseIdx) + c * Len(SpecIdx) + e[1]][e[2]] # 0}
CopyOut(c) ==
    {e \in (1..Len(SpecIdx)) \X (1..Len(BaseIdx)) :
        r.A[e[2]][Len(BaseIdx) + c * Len(SpecIdx) + e[1]] # 0}

\* labels are n distinct strings, and labeler and indexer are inverse
WellLabelled(net) ==
    /\ Len(net.labels) = net.n
    /\ \A p \in 1..Len(net.labels) : net.labels[p].k = "str"
    /\ \A p, q \in 1..Len(net.labels) : p # q => net.labels[p] # net.labels[q]
    /\ \A i \in 0..(net.n - 1) :
        /\ net.labeler[i] \in DOMAIN net.indexer
        /\ net.indexer[net.labeler[i]] = i

\* the identity matrix and the matrix product, for the powers of an adjacency
Identity(n) == [p \in 1..n |-> [q \in 1..n |-> IF p = q THEN 1 ELSE 0]]
MatMul(A, B) ==
    [p \in 1..Len(A) |-> [q \in 1..Len(A) |->
        SumSeq([k \in 1..Len(A) |-> A[p][k] * B[k][q]])]]
RECURSIVE MatPow(_, _)
MatPow(A, t) == IF t = 0 THEN Identity(Len(A)) ELSE MatMul(MatPow(A, t - 1), A)
\* adjacency^t x x0
PowerApply(A, t, x) == IF t = 0 THEN x ELSE MatVec(MatPow(A, t), x)

\* iterate returned a trajectory in linear mode from a state of n entries
LinearRun ==
    /\ op.name = "iterate"
    /\ op.err = ""
    /\ op.pre.F = "none"
    /\ Len(op.x0) = op.pre.n

---------------------------------------------------------------------------
(* The claims *)

\* C1: specialize never mutates the network it is called on: after
\* g.specialize(base) on the network as constructed, g's adjacency, labels,
\* labeler and indexer are what they were after construction.
C1_ReceiverUnchanged ==
    (op.name = "specialize" /\ op.pre = root) =>
        /\ g.A = root.A
        /\ g.labels = root.labels
        /\ g.labeler = root.labeler
        /\ g.indexer = root.indexer

\* C2: in every network specialize returns, the number of copies of the
\* specialized block is count(in_edges) x count(out_edges), and every copy has
\* exactly one nonzero entry in its rows of the base columns and exactly one in
\* its columns of the base rows, each with the weight of the original edge.
C2_CopiesAreThePairings ==
    Returned =>
        /\ Copies = Cardinality(InEdges) * Cardinality(OutEdges)
        /\ \A c \in 0..(Copies - 1) :
            /\ Cardinality(CopyIn(c)) = 1
            /\ Cardinality(CopyOut(c)) = 1
            /\ \A e \in CopyIn(c) :
                r.A[Len(BaseIdx) + c * Len(SpecIdx) + e[1]][e[2]]
                    = Weight(SpecIdx[e[1]], BaseIdx[e[2]])
            /\ \A e \in CopyOut(c) :
                r.A[e[2]][Len(BaseIdx) + c * Len(SpecIdx) + e[1]]
                    = Weight(BaseIdx[e[2]], SpecIdx[e[1]])

\* C3: the network specialize(base) returns has |base| + num_copies x |spec_set|
\* nodes, num_copies being the product of the summed weights of the two cross
\* blocks.
C3_NodeCount ==
    Returned => r.n = Len(BaseIdx) + NumIn * NumOut * Len(SpecIdx)

\* C3 witness: a base of one node and a specialized set of two, copied at least
\* twice
C3_Witness ==
    /\ Returned
    /\ Len(BaseIdx) = 1
    /\ Len(SpecIdx) = 2
    /\ NumIn * NumOut >= 2
    /\ r.n = 1 + NumIn * NumOut * 2

\* C4: for every node i of every network specialize returns, after any sequence
\* of calls, original(i) succeeds with an index of the original functional
\* matrix, and origin is the original network's mapping.
C4_OriginalResolves ==
    Returned =>
        /\ r.origin = root.origin
        /\ \A i \in 0..(r.n - 1) :
            /\ OriginalCall(r, i).err = ""
            /\ OriginalCall(r, i).ret \in 0..(root.n - 1)

\* C5: in every network object (as constructed, after a specialize call on it,
\* and as returned by specialize) labels are n unique strings and
\* indexer[labeler[i]] = i for all i.
C5_LabelsInverse ==
    /\ pc = "live" => WellLabelled(g)
    /\ Returned => WellLabelled(r)

\* C6: specialize(base) raises, and returns no network, when base mixes strings
\* and integers, when it holds an identifier that is no label and no index of
\* the network, and when it is longer than n.
C6_BadBaseRaises ==
    LET items == op.base.items
        mixed == \E p, q \in 1..Len(items) : items[p].k = "str" /\ items[q].k = "int"
        unknown == \E p \in 1..Len(items) :
                        /\ items[p] \notin Range(op.pre.labels)
                        /\ ~(items[p].k = "int" /\ items[p].i \in 0..(op.pre.n - 1))
    IN  (op.name = "specialize" /\ (mixed \/ unknown \/ Len(items) > op.pre.n))
            => (op.err # "" /\ r = NoGraph)

\* C7: the constructor raises, and makes no network, when the explicit labels
\* are not a list of exactly n strings (n the number of rows of the matrix) or
\* hold a duplicate.
C7_BadLabelsRaise ==
    LET items == op.labels.items
        strings == \A p \in 1..Len(items) : items[p].k = "str"
        distinct == \A p, q \in 1..Len(items) : p # q => items[p] # items[q]
        good == op.labels.kind = "list" /\ Len(items) = op.rows /\ strings /\ distinct
    IN  (op.name = "init" /\ op.labels.kind # "none" /\ ~good)
            => (op.err # "" /\ pc = "new")

\* C8 as claimed: without a functional matrix, iterate(k, x0)[t] is
\* adjacency^t x x0 for every t with 0 <= t <= k: the state after k applications
\* is in the trajectory returned.
C8_RowsUpToK ==
    LinearRun =>
        \A t \in 0..op.iters :
            /\ t + 1 <= Len(op.traj)
            /\ op.traj[t + 1] = PowerApply(op.pre.A, t, op.x0)

\* C8 as amended: without a functional matrix and from a state of n entries,
\* iterate(k, x0) with k >= 1 returns exactly k rows, row t being
\* adjacency^t x x0 for 0 <= t <= k - 1 (row 0 is x0 and each row is the
\* adjacency applied to the row before); the state after k applications is not
\* in the trajectory.
C8_RowsBelowK ==
    LinearRun =>
        /\ op.iters >= 1
        /\ Len(op.traj) = op.iters
        /\ op.traj[1] = op.x0
        /\ \A t \in 0..(op.iters - 1) : op.traj[t + 1] = PowerApply(op.pre.A, t, op.x0)
        /\ \A t \in 1..(op.iters - 1) : op.traj[t + 1] = MatVec(op.pre.A, op.traj[t])

\* C8 witness: three rows on a network of at least two nodes, the state moving
\* at each step
C8_Witness ==
    /\ LinearRun
    /\ op.iters = 3
    /\ op.pre.n >= 2
    /\ Len(op.traj) = 3
    /\ op.traj[2] # op.traj[1]
    /\ op.traj[3] # op.traj[2]
    /\ op.traj[3] = MatVec(MatMul(op.pre.A, op.pre.A), op.x0)

\* C9: iterate raises, and returns no trajectory, whenever the initial state
\* has not n entries, with and without a functional matrix.
C9_BadStateRaises ==
    (op.name = "iterate" /\ Len(op.x0) # op.pre.n) => (op.err # "" /\ op.traj = <<>>)

\* C10: on a network with non-negative integer weights, specialize of a
\* non-empty list of distinct valid indices completes without error: the
\* pairings the rewiring loop goes through are at most num_copies.
C10_Completes ==
    LET items == op.base.items
        A == op.pre.A
    IN  (/\ op.name = "specialize"
         /\ op.base.kind = "list"
         /\ Len(items) >= 1
         /\ \A p \in 1..Len(items) : items[p].k = "int" /\ items[p].i \in 0..(op.pre.n - 1)
         /\ \A p, q \in 1..Len(items) : p # q => items[p] # items[q]
         /\ \A p \in 1..Len(A) : \A q \in 1..Len(A) : A[p][q] >= 0)
            => /\ op.err = ""
               /\ Cardinality(InEdges) * Cardinality(OutEdges) <= NumIn * NumOut

=============================================================================
